---- MODULE Spec2Model ----
(***************************************************************************)
(* The reproduction engine of dvc/repo/reproduce.py: frozen-edge pruning,  *)
(* derivation of the evaluation plan, and the sequential executor.         *)
(*                                                                         *)
(* A graph is a record [nodes, edges]; an edge <<u, v>> reads "u depends   *)
(* on v" (networkx DiGraph edge u -> v).  Stages are numbered 1..NumStages *)
(* and a graph iterates its nodes and adjacency in ascending number.       *)
(***************************************************************************)
EXTENDS Integers, Sequences, FiniteSets, TLC

\* ---------------------------------------------------------------- bounds
\* stages of the graphs the plan is derived for
NumStages == 3
\* stages of the graphs whole runs of reproduce() are explored on
RunStages == 2
\* longest sequence of seeds (targets resolved to stages)
MaxSeeds == 2

Stages == 1..NumStages

RunNodes == 1..RunStages

\* ------------------------------------------------------- sequence helpers
Range(s) == {s[k] : k \in DOMAIN s}

IsDistinct(s) == \A j, k \in DOMAIN s : j # k => s[j] # s[k]

Reverse(s) == [k \in 1..Len(s) |-> s[Len(s) + 1 - k]]

Prefix(s, n) == SubSeq(s, 1, n)

IndexOf(s, x) == CHOOSE k \in DOMAIN s : s[k] = x

Before(s, x, y) == IndexOf(s, x) < IndexOf(s, y)

Min(S) == CHOOSE x \in S : \A y \in S : x <= y

RECURSIVE SortedSeq(_)
SortedSeq(S) ==
    IF S = {} THEN <<>>
    ELSE LET m == Min(S) IN <<m>> \o SortedSeq(S \ {m})

\* funcy.ldistinct: first occurrence wins, order preserved
RECURSIVE ldistinctFrom(_, _)
ldistinctFrom(s, acc) ==
    IF s = <<>> THEN acc
    ELSE ldistinctFrom(Tail(s),
                       IF Head(s) \in Range(acc) THEN acc
                       ELSE Append(acc, Head(s)))

ldistinct(s) == ldistinctFrom(s, <<>>)

\* ---------------------------------------------------------- DiGraph views
out_edges(g, n) == {e \in g.edges : e[1] = n}

in_degree(g, n) == Cardinality({e \in g.edges : e[2] = n})

Successors(g, n) == {e[2] : e \in out_edges(g, n)}

reverse(g) == [nodes |-> g.nodes, edges |-> {<<e[2], e[1]>> : e \in g.edges}]

RECURSIVE ReachFrom(_, _)
ReachFrom(g, S) ==
    LET T == S \cup UNION {Successors(g, n) : n \in S}
    IN IF T = S THEN S ELSE ReachFrom(g, T)

\* transitive dependencies of n: everything reachable over outgoing edges
Dependencies(g, n) == ReachFrom(g, Successors(g, n))

\* transitive dependents of n: everything that reaches n
Dependents(g, n) == Dependencies(reverse(g), n)

IsAcyclic(g) == \A n \in g.nodes : n \notin Dependencies(g, n)

\* the acyclic graphs over the node set N
GraphsOn(N) ==
    {g \in [nodes : {N}, edges : SUBSET {e \in N \X N : e[1] # e[2]}] :
        IsAcyclic(g)}

\* the acyclic graphs over N numbered so that a stage depends on stages of
\* lower number only (every acyclic graph is one of these up to the names
\* of its stages)
NumberedGraphsOn(N) == {g \in GraphsOn(N) : \A e \in g.edges : e[1] > e[2]}

\* the sequences of at most n stages of N
SeqsOver(N, n) == UNION {[1..k -> N] : k \in 0..n}

\* ------------------------------------------------- _remove_frozen_stages
\* The call returns the copy g; the record also carries the caller's graph
\* as the call leaves it.

\* variant: disconnects a frozen stage from its dependents (in_edges)
RemoveFrozenInEdges(graph, frz) ==
    [g |-> [nodes |-> graph.nodes,
            edges |-> {e \in graph.edges : e[2] \notin frz}],
     graph |-> graph]

\* variant: works on the caller's graph, no copy taken
RemoveFrozenInPlace(graph, frz) ==
    LET g == [nodes |-> graph.nodes,
              edges |-> graph.edges \ UNION {out_edges(graph, s) :
                                             s \in {n \in graph.nodes : n \in frz}}]
    IN [g |-> g, graph |-> g]

_remove_frozen_stages(graph, frz) ==
    [g |-> [nodes |-> graph.nodes,
            edges |-> graph.edges \ UNION {out_edges(graph, s) :
                                           s \in {n \in graph.nodes : n \in frz}}],
     graph |-> graph]

\* ---------------------------------------------------------------- get_steps
\* networkx.dfs_postorder_nodes(g, source): depth-first search over the
\* outgoing edges of g, a node emitted once all its successors are done.
RECURSIVE DfsVisit(_, _, _)
RECURSIVE DfsChildren(_, _, _)
DfsVisit(g, n, st) ==
    LET entered == [st EXCEPT !.seen = @ \cup {n}]
        after == DfsChildren(g, SortedSeq(Successors(g, n)), entered)
    IN [after EXCEPT !.out = Append(@, n)]

DfsChildren(g, kids, st) ==
    IF kids = <<>> THEN st
    ELSE DfsChildren(g, Tail(kids),
                     IF Head(kids) \in st.seen THEN st
                     ELSE DfsVisit(g, Head(kids), st))

dfs_postorder_nodes(g, source) ==
    DfsVisit(g, source, [seen |-> {}, out |-> <<>>]).out

\* one seed's contribution to the plan
StepNodes(graph, stage, downstream) ==
    IF downstream
    THEN Reverse(dfs_postorder_nodes(reverse(graph), stage))
    ELSE dfs_postorder_nodes(graph, stage)

RECURSIVE get_steps_from(_, _, _, _)
get_steps_from(graph, stages, downstream, steps) ==
    IF stages = <<>> THEN steps
    ELSE get_steps_from(graph, Tail(stages), downstream,
                        ldistinctFrom(StepNodes(graph, Head(stages), downstream),
                                      steps))

get_steps(graph, stages, downstream) ==
    get_steps_from(graph, stages, downstream, <<>>)

\* ------------------------------------------------------------------ state
VARIABLES
    graph,      \* self.index.graph, owned by the repository
    frozen,     \* the stages whose `frozen` attribute is set
    targets,    \* reproduce() in pipeline mode: all_pipelines and the
                \* stages get_target resolves the targets to
    collected,  \* reproduce(): the `stages` list built from the targets
    opts,       \* caller's options: downstream, single_item,
                \* force_downstream, dry, pull (pull and run_cache), force
    pc,         \* "collect" | "pull" | "plan" | "loop" | "done" | "failed"
    active,     \* _reproduce_stages: the pruned copy
    stages,     \* _reproduce_stages: its `stages` (seeds, then the plan)
    i,          \* number of completed iterations of the loop
    force,      \* kwargs["force"] as carried across iterations
    result,     \* _reproduce_stages: `result`
    calls,      \* the stage.reproduce calls made so far, in order
    dumped,     \* completed stage.dump calls, in order
    warnings,   \* logger.warning of the run-cache prefetch (the frozen
                \* notice of _reproduce_stage, lines 23 to 27, only writes
                \* to the log and is not recorded)
    error       \* the exception the operation ended with

vars == <<graph, frozen, targets, collected, opts, pc, active, stages, i, force,
          result, calls, dumped, warnings, error>>

NoError == [kind |-> "none", stage |-> 0]

ReproductionError(stage) == [kind |-> "ReproductionError", stage |-> stage]

PullFailure == [kind |-> "PullFailure", stage |-> 0]

NoGraph == [nodes |-> {}, edges |-> {}]

\* reproduce() called with neither pipeline nor all_pipelines
NoTargets == [all_pipelines |-> FALSE, stages |-> <<>>]

Options ==
    [downstream : BOOLEAN, single_item : BOOLEAN, force_downstream : BOOLEAN,
     dry : BOOLEAN, pull : BOOLEAN, force : BOOLEAN]

\* ------------------------------------------- reproduce(), lines 87 to 94
\* the prefetch is not requested: straight to _reproduce_stages
PullSkipped ==
    /\ pc = "pull"
    /\ ~opts.pull
    /\ stages' = ldistinct(collected)
    /\ pc' = "plan"
    /\ UNCHANGED <<graph, frozen, targets, collected, opts, active, i, force, result,
                   calls, dumped, warnings, error>>

\* stage_cache.pull(None) returns
PullDone ==
    /\ pc = "pull"
    /\ opts.pull
    /\ stages' = ldistinct(collected)
    /\ pc' = "plan"
    /\ UNCHANGED <<graph, frozen, targets, collected, opts, active, i, force, result,
                   calls, dumped, warnings, error>>

\* variant: the warning is logged and the exception raised again
PullNotSupportedReraised ==
    /\ pc = "pull"
    /\ opts.pull
    /\ warnings' = Append(warnings, "Failed to pull run cache")
    /\ error' = PullFailure
    /\ pc' = "failed"
    /\ UNCHANGED <<graph, frozen, targets, collected, opts, active, stages, i, force,
                   result, calls, dumped>>

\* stage_cache.pull(None) raises RunCacheNotSupported: warn and go on
PullNotSupported ==
    /\ pc = "pull"
    /\ opts.pull
    /\ warnings' = Append(warnings, "Failed to pull run cache")
    /\ stages' = ldistinct(collected)
    /\ pc' = "plan"
    /\ UNCHANGED <<graph, frozen, targets, collected, opts, active, i, force, result,
                   calls, dumped, error>>

\* stage_cache.pull(None) raises anything else: it leaves reproduce()
PullRaises ==
    /\ pc = "pull"
    /\ opts.pull
    /\ error' = PullFailure
    /\ pc' = "failed"
    /\ UNCHANGED <<graph, frozen, targets, collected, opts, active, stages, i, force,
                   result, calls, dumped, warnings>>

\* --------------------------------- _reproduce_stages, lines 142 to 144
\* variant: the plan derived from the unpruned graph
DeriveUnpruned ==
    /\ pc = "plan"
    /\ \/ /\ ~opts.single_item
          /\ active' = _remove_frozen_stages(graph, frozen).g
          /\ stages' = get_steps(graph, stages, opts.downstream)
          /\ UNCHANGED graph
       \/ /\ opts.single_item
          /\ UNCHANGED <<graph, active, stages>>
    /\ pc' = "loop"
    /\ UNCHANGED <<frozen, targets, collected, opts, i, force, result, calls, dumped,
                   warnings, error>>

\* variant: the direction handed to get_steps is the opposite one
DeriveFlipped ==
    /\ pc = "plan"
    /\ \/ /\ ~opts.single_item
          /\ LET r == _remove_frozen_stages(graph, frozen) IN
                /\ graph' = r.graph
                /\ active' = r.g
                /\ stages' = get_steps(r.g, stages, ~opts.downstream)
       \/ /\ opts.single_item
          /\ UNCHANGED <<graph, active, stages>>
    /\ pc' = "loop"
    /\ UNCHANGED <<frozen, targets, collected, opts, i, force, result, calls,
                   dumped, warnings, error>>

\* variant: single_item not consulted
DeriveAlways ==
    /\ pc = "plan"
    /\ LET r == _remove_frozen_stages(graph, frozen) IN
          /\ graph' = r.graph
          /\ active' = r.g
          /\ stages' = get_steps(r.g, stages, opts.downstream)
    /\ pc' = "loop"
    /\ UNCHANGED <<frozen, targets, collected, opts, i, force, result, calls, dumped,
                   warnings, error>>

Derive ==
    /\ pc = "plan"
    /\ \/ /\ ~opts.single_item
          /\ LET r == _remove_frozen_stages(graph, frozen) IN
                /\ graph' = r.graph
                /\ active' = r.g
                /\ stages' = get_steps(r.g, stages, opts.downstream)
       \/ /\ opts.single_item
          /\ UNCHANGED <<graph, active, stages>>
    /\ pc' = "loop"
    /\ UNCHANGED <<frozen, targets, collected, opts, i, force, result, calls, dumped,
                   warnings, error>>

\* --------------------------------- _reproduce_stages, lines 146 to 166
\* the call stage.reproduce(upstream=stages[:i], **kwargs) of
\* _reproduce_stage and how it ended: ret is "stage", "none" or "raise"
\* variant: only the stages that changed are handed on as upstream
InvocationUpstreamChanged(ret) ==
    [stage |-> stages[i + 1], upstream |-> result,
     force |-> force, dry |-> opts.dry, ret |-> ret]

\* the call _reproduce_stage(stage, upstream=stages[:i], **kwargs) and its
\* outcome
Invocation(ret) ==
    [stage |-> stages[i + 1], upstream |-> Prefix(stages, i),
     force |-> force, dry |-> opts.dry, ret |-> ret]

\* variant: force is left as the caller gave it
AfterChangedKeepsForce(ret) ==
    /\ result' = Append(result, ret)
    /\ force' = force
    /\ i' = i + 1

\* variant: force is set after any change, whatever force_downstream says
AfterChangedForcesAlways(ret) ==
    /\ result' = Append(result, ret)
    /\ force' = TRUE
    /\ i' = i + 1

\* what the loop body does once _reproduce_stage returned a stage
AfterChanged(ret) ==
    /\ result' = Append(result, ret)
    /\ force' = IF opts.force_downstream THEN TRUE ELSE force
    /\ i' = i + 1

\* variant: the failure is recorded and the loop goes on
StageRaisesSkipped ==
    /\ pc = "loop"
    /\ i < Len(stages)
    /\ calls' = Append(calls, Invocation("raise"))
    /\ error' = ReproductionError(stages[i + 1])
    /\ i' = i + 1
    /\ UNCHANGED <<graph, frozen, targets, collected, opts, pc, active, stages, force,
                   result, dumped, warnings>>

\* variant: a failure undoes the dumps made so far
StageRaisesRollsBack ==
    /\ pc = "loop"
    /\ i < Len(stages)
    /\ calls' = Append(calls, Invocation("raise"))
    /\ error' = ReproductionError(stages[i + 1])
    /\ dumped' = <<>>
    /\ pc' = "failed"
    /\ UNCHANGED <<graph, frozen, targets, collected, opts, active, stages, i, force,
                   result, warnings>>

\* variant: the error names the first stage of the plan
StageRaisesBlamesFirst ==
    /\ pc = "loop"
    /\ i < Len(stages)
    /\ calls' = Append(calls, Invocation("raise"))
    /\ error' = ReproductionError(stages[1])
    /\ pc' = "failed"
    /\ UNCHANGED <<graph, frozen, targets, collected, opts, active, stages, i, force,
                   result, dumped, warnings>>

\* stage.reproduce raises
StageRaises ==
    /\ pc = "loop"
    /\ i < Len(stages)
    /\ calls' = Append(calls, Invocation("raise"))
    /\ error' = ReproductionError(stages[i + 1])
    /\ pc' = "failed"
    /\ UNCHANGED <<graph, frozen, targets, collected, opts, active, stages, i, force,
                   result, dumped, warnings>>

\* variant: an unchanged stage is dumped all the same
StageUnchangedDumped ==
    /\ pc = "loop"
    /\ i < Len(stages)
    /\ calls' = Append(calls, Invocation("none"))
    /\ dumped' = IF ~opts.dry
                 THEN Append(dumped, [stage |-> stages[i + 1],
                                      update_pipeline |-> FALSE])
                 ELSE dumped
    /\ i' = i + 1
    /\ UNCHANGED <<graph, frozen, targets, collected, opts, pc, active, stages, force,
                   result, warnings, error>>

\* variant: an unchanged stage is reported in the result
StageUnchangedReported ==
    /\ pc = "loop"
    /\ i < Len(stages)
    /\ calls' = Append(calls, Invocation("none"))
    /\ result' = Append(result, stages[i + 1])
    /\ i' = i + 1
    /\ UNCHANGED <<graph, frozen, targets, collected, opts, pc, active, stages, force,
                   dumped, warnings, error>>

\* stage.reproduce returns None
StageUnchanged ==
    /\ pc = "loop"
    /\ i < Len(stages)
    /\ calls' = Append(calls, Invocation("none"))
    /\ i' = i + 1
    /\ UNCHANGED <<graph, frozen, targets, collected, opts, pc, active, stages, force,
                   result, dumped, warnings, error>>

\* variant: a changed stage is dumped in a dry run too
StageChangedDumpsInDry ==
    /\ pc = "loop"
    /\ i < Len(stages)
    /\ calls' = Append(calls, Invocation("stage"))
    /\ dumped' = Append(dumped, [stage |-> stages[i + 1],
                                 update_pipeline |-> FALSE])
    /\ AfterChanged(stages[i + 1])
    /\ UNCHANGED <<graph, frozen, targets, collected, opts, pc, active, stages,
                   warnings, error>>

\* stage.reproduce returns the stage; stage.dump, when called, returns
StageChanged ==
    /\ pc = "loop"
    /\ i < Len(stages)
    /\ calls' = Append(calls, Invocation("stage"))
    /\ dumped' = IF ~opts.dry
                 THEN Append(dumped, [stage |-> stages[i + 1],
                                      update_pipeline |-> FALSE])
                 ELSE dumped
    /\ AfterChanged(stages[i + 1])
    /\ UNCHANGED <<graph, frozen, targets, collected, opts, pc, active, stages,
                   warnings, error>>

\* variant: the stage is reported and forces the rest before its dump fails
DumpRaisesReported ==
    /\ pc = "loop"
    /\ i < Len(stages)
    /\ ~opts.dry
    /\ calls' = Append(calls, Invocation("stage"))
    /\ error' = ReproductionError(stages[i + 1])
    /\ result' = Append(result, stages[i + 1])
    /\ force' = IF opts.force_downstream THEN TRUE ELSE force
    /\ pc' = "failed"
    /\ UNCHANGED <<graph, frozen, targets, collected, opts, active, stages, i,
                   dumped, warnings>>

\* stage.reproduce returns the stage and stage.dump raises
DumpRaises ==
    /\ pc = "loop"
    /\ i < Len(stages)
    /\ ~opts.dry
    /\ calls' = Append(calls, Invocation("stage"))
    /\ error' = ReproductionError(stages[i + 1])
    /\ pc' = "failed"
    /\ UNCHANGED <<graph, frozen, targets, collected, opts, active, stages, i, force,
                   result, dumped, warnings>>

Return ==
    /\ pc = "loop"
    /\ i = Len(stages)
    /\ pc' = "done"
    /\ UNCHANGED <<graph, frozen, targets, collected, opts, active, stages, i, force,
                   result, calls, dumped, warnings, error>>

\* ---------------------------------------------------------- specifications
InitLocals ==
    /\ active = NoGraph
    /\ i = 0
    /\ force = opts.force
    /\ result = <<>>
    /\ calls = <<>>
    /\ dumped = <<>>
    /\ warnings = <<>>
    /\ error = NoError

\* the derivation of the plan alone: _reproduce_stages entered with any
\* graph, any frozen set and any sequence of distinct seeds
InitPlan ==
    /\ graph \in GraphsOn(Stages)
    /\ frozen \in SUBSET Stages
    /\ collected \in {s \in SeqsOver(Stages, MaxSeeds) : IsDistinct(s)}
    /\ opts \in {o \in Options : ~o.force_downstream /\ ~o.dry /\ ~o.pull /\ ~o.force}
    /\ targets = NoTargets
    /\ stages = collected
    /\ pc = "plan"
    /\ InitLocals

NextPlan == Derive

SpecPlan == InitPlan /\ [][NextPlan]_vars

\* a whole call of reproduce()
Init ==
    /\ graph \in NumberedGraphsOn(RunNodes)
    /\ frozen \in SUBSET RunNodes
    /\ collected \in SeqsOver(RunNodes, MaxSeeds)
    /\ opts \in Options
    /\ targets = NoTargets
    /\ stages = <<>>
    /\ pc = "pull"
    /\ InitLocals

Next ==
    \/ PullSkipped
    \/ PullDone
    \/ PullNotSupported
    \/ PullRaises
    \/ Derive
    \/ StageRaises
    \/ StageUnchanged
    \/ StageChanged
    \/ DumpRaises
    \/ Return

Spec == Init /\ [][Next]_vars

\* =================================================================== claims
\* the seeds _reproduce_stages is called with (line 94)
Seeds == ldistinct(collected)

\* the plan has been derived and the loop not yet left
Planned == pc \in {"loop", "done"} \/ error.kind = "ReproductionError"

\* the repository graph without the outgoing edges of its frozen stages
Pruned ==
    [nodes |-> graph.nodes, edges |-> {e \in graph.edges : e[1] \notin frozen}]

UpstreamClosure(g, seeds) ==
    Range(seeds) \cup UNION {Dependencies(g, s) : s \in Range(seeds)}

DownstreamClosure(g, seeds) ==
    Range(seeds) \cup UNION {Dependents(g, s) : s \in Range(seeds)}

\* dependency before dependent, for the edges of g between members of plan
OrderingLaw(g, plan) ==
    \A e \in g.edges :
        (e[1] \in Range(plan) /\ e[2] \in Range(plan)) => Before(plan, e[2], e[1])

\* C1: with downstream = false and single_item = false the plan is, each
\* stage once, the seeds and their transitive dependencies in the pruned
\* graph, and every edge a -> b of that graph between two plan members has
\* b placed before a.
C1_UpstreamPlan ==
    (Planned /\ ~opts.downstream /\ ~opts.single_item) =>
        /\ Range(stages) = UpstreamClosure(Pruned, Seeds)
        /\ IsDistinct(stages)
        /\ OrderingLaw(Pruned, stages)

\* C1 witness: two seeds, the second depending on the first through a third
\* stage, and the plan of three stages derived
C1_Witness ==
    /\ pc = "loop"
    /\ ~opts.downstream /\ ~opts.single_item
    /\ Len(Seeds) = 2
    /\ Len(stages) = 3
    /\ Seeds[1] \in Dependencies(Pruned, Seeds[2])
    /\ <<Seeds[2], Seeds[1]>> \notin graph.edges

\* C2: with downstream = true and single_item = false the plan is, each
\* stage once, the seeds and their transitive dependents, and every edge
\* a -> b between two plan members has b placed before a.  (Refuted: the
\* seeds <<1, 2>> in the graph of the single edge 1 -> 2 give the plan
\* <<1, 2>>, the dependent first.)
C2_DownstreamPlan ==
    (Planned /\ opts.downstream /\ ~opts.single_item) =>
        /\ Range(stages) = DownstreamClosure(Pruned, Seeds)
        /\ IsDistinct(stages)
        /\ OrderingLaw(Pruned, stages)

\* the stages of the plan whose reproduce call returned the stage
ChangedStages == {c.stage : c \in {d \in Range(calls) : d.ret = "stage"}}

UnchangedStages == {c.stage : c \in {d \in Range(calls) : d.ret = "none"}}

DumpedStages == {d.stage : d \in Range(dumped)}

\* C3: when the invocation at plan index i raises, the run is over with a
\* ReproductionError for exactly that stage, the stages invoked are those of
\* indices 0..i, one call each, and nothing is invoked afterwards.
C3_FailFast ==
    error.kind = "ReproductionError" =>
        /\ pc = "failed"
        /\ Len(calls) = i + 1
        /\ \A k \in DOMAIN calls : calls[k].stage = stages[k]
        /\ error.stage = stages[i + 1]
        /\ ~ENABLED Next

\* C3 witness: the first of two planned stages raised
C3_Witness ==
    /\ error.kind = "ReproductionError"
    /\ calls[Len(calls)].ret = "raise"
    /\ i = 0
    /\ Len(stages) = 2

\* C4: with force_downstream, every invocation that follows a stage that
\* reported a change carries force = true.
C4_ForceDownstream ==
    opts.force_downstream =>
        \A k \in DOMAIN calls :
            (\E j \in 1..(k - 1) : calls[j].ret = "stage") => calls[k].force

\* C4 witness: the caller passed force = false, the first stage changed and
\* the second, invoked with force = true, reported no change
C4_Witness ==
    /\ opts.force_downstream /\ ~opts.force
    /\ Len(calls) = 2
    /\ calls[1].ret = "stage" /\ ~calls[1].force
    /\ calls[2].ret = "none" /\ calls[2].force

\* C5: a stage whose reproduce call returned None is neither dumped nor in
\* the result.
C5_UnchangedNotPersisted ==
    \A s \in UnchangedStages : s \notin DumpedStages /\ s \notin Range(result)

\* C5 witness: a non-dry run where one stage was unchanged and another was
\* changed and dumped
C5_Witness ==
    /\ ~opts.dry
    /\ UnchangedStages # {}
    /\ DumpedStages # {}
    /\ pc = "done"

\* C6: the result of a completed run is the plan restricted to the stages
\* that reported a change, in plan order.
C6_ResultIsChangedSubsequence ==
    pc = "done" =>
        LET Changed(s) == s \in ChangedStages
        IN /\ Len(calls) = Len(stages)
           /\ result = SelectSeq(stages, Changed)

\* C6 witness: a completed run of two stages, both changed
C6_Witness ==
    /\ pc = "done"
    /\ Len(result) = 2
    /\ Len(stages) = 2

\* C7: the graph _remove_frozen_stages returns has the nodes of the graph
\* it was given and exactly those of its edges whose source is not frozen;
\* an edge from a non-frozen stage into a frozen one is kept.
C7_PrunedEdges ==
    [][(pc = "plan" /\ ~opts.single_item) =>
        /\ active'.nodes = graph.nodes
        /\ \A u, v \in graph.nodes :
              <<u, v>> \in active'.edges <=>
                  (<<u, v>> \in graph.edges /\ u \notin frozen)]_vars

\* C7 witness: a frozen stage lost its outgoing edge and kept the edge that
\* enters it from a stage that is not frozen
C7_Witness ==
    /\ pc = "loop"
    /\ ~opts.single_item
    /\ \E u, v, w \in graph.nodes :
          /\ v \in frozen /\ u \notin frozen
          /\ <<v, w>> \in graph.edges /\ <<v, w>> \notin active.edges
          /\ <<u, v>> \in graph.edges /\ <<u, v>> \in active.edges

\* C8: pruning a pruned graph changes nothing, and no step of a run changes
\* the repository graph.
C8_PruneIdempotentNonDestructive ==
    /\ [](LET once == _remove_frozen_stages(graph, frozen).g
         IN _remove_frozen_stages(once, frozen).g = once)
    /\ [][graph' = graph]_vars

\* C8 witness: a completed run whose pruning removed an edge
C8_Witness ==
    /\ pc = "done"
    /\ calls # <<>>
    /\ active # NoGraph
    /\ active.edges # graph.edges

\* C9: with single_item the plan is the seed sequence itself, nothing is
\* pruned, and the stages invoked are the seeds in their order, whatever
\* downstream is.
C9_SingleItemPlan ==
    opts.single_item =>
        /\ pc \in {"plan", "loop", "done"} => stages = Seeds
        /\ active = NoGraph
        /\ \A k \in DOMAIN calls : calls[k].stage = Seeds[k]
        /\ pc = "done" => Len(calls) = Len(Seeds)

\* C9 witness: a completed downstream run on one frozen seed that has a
\* dependent, which was not invoked
C9_Witness ==
    /\ opts.single_item /\ opts.downstream
    /\ pc = "done"
    /\ Len(calls) = 1
    /\ Dependents(graph, calls[1].stage) # {}
    /\ calls[1].stage \in frozen

\* the plan _reproduce_stages derives from the inputs of the run
ExpectedPlan ==
    IF opts.single_item THEN Seeds
    ELSE get_steps(Pruned, Seeds, opts.downstream)

\* the run reproduces the stages of its plan, one call each, in order
RunsNormally ==
    /\ error.kind # "PullFailure"
    /\ pc = "plan" => (stages = Seeds /\ calls = <<>>)
    /\ Planned => stages = ExpectedPlan
    /\ \A k \in DOMAIN calls :
          /\ calls[k].stage = stages[k]
          /\ calls[k].dry = opts.dry
          /\ ~opts.force_downstream => calls[k].force = opts.force
    /\ pc = "done" => Len(calls) = Len(stages)

\* C10: after a "not supported" failure of the prefetch a warning is logged
\* and the run is one that a run without prefetch makes too; after any
\* other failure of the prefetch the operation has failed with it and no
\* stage has been invoked, dumped or reported.
C10_Prefetch ==
    /\ (pc # "pull" /\ (warnings # <<>> \/ ~opts.pull)) => RunsNormally
    /\ warnings # <<>> => opts.pull
    /\ error.kind = "PullFailure" =>
          /\ pc = "failed"
          /\ warnings = <<>>
          /\ calls = <<>> /\ dumped = <<>> /\ result = <<>>
          /\ ~ENABLED Next

\* C10 witness: the prefetch failed with "not supported" and two stages were
\* reproduced all the same
C10_Witness ==
    /\ warnings # <<>>
    /\ pc = "done"
    /\ Len(calls) = 2
    /\ Len(result) = 1


\* C11: in a run that is not dry, every stage of a completed iteration that
\* reported a change has been dumped, and it still is once a later stage
\* has failed.
C11_NoRollback ==
    ~opts.dry =>
        \A k \in 1..i : calls[k].ret = "stage" => calls[k].stage \in DumpedStages

\* C11 witness: the second stage raised after the first had changed and was
\* dumped
C11_Witness ==
    /\ ~opts.dry
    /\ error.kind = "ReproductionError"
    /\ i = 1
    /\ calls[1].ret = "stage"
    /\ calls[2].ret = "raise"
    /\ DumpedStages = {calls[1].stage}


\* ------------------------------------------ the runs over a 3-stage plan
ThreeNodes == 1..3

\* _reproduce_stages entered with three stages, any frozen set, any distinct
\* seeds and any options, such that the plan has three stages
InitThree ==
    /\ graph \in NumberedGraphsOn(ThreeNodes)
    /\ frozen \in SUBSET ThreeNodes
    /\ collected \in {s \in SeqsOver(ThreeNodes, 3) : IsDistinct(s)}
    /\ opts \in {o \in Options : ~o.pull}
    /\ Len(ExpectedPlan) = 3
    /\ targets = NoTargets
    /\ stages = collected
    /\ pc = "plan"
    /\ InitLocals

NextThree ==
    \/ Derive
    \/ StageRaises
    \/ StageUnchanged
    \/ StageChanged
    \/ DumpRaises
    \/ Return

SpecThree == InitThree /\ [][NextThree]_vars

\* C12: when the second stage of a 3-stage plan fails, the operation has
\* failed with a ReproductionError for the second stage, `result` holds the
\* first stage if and only if it reported a change, and the third stage is
\* not invoked, then or later.
C12_SecondOfThreeRaises ==
    (Len(stages) = 3 /\ error.kind = "ReproductionError" /\ i = 1) =>
        /\ pc = "failed"
        /\ error.stage = stages[2]
        /\ result = IF calls[1].ret = "stage" THEN <<stages[1]>> ELSE <<>>
        /\ stages[3] \notin {c.stage : c \in Range(calls)}
        /\ ~ENABLED NextThree

\* C12 witness: the first of three stages changed and the second raised
C12_Witness ==
    /\ Len(stages) = 3
    /\ error.kind = "ReproductionError"
    /\ Len(calls) = 2
    /\ calls[1].ret = "stage"
    /\ calls[2].ret = "raise"
    /\ result = <<stages[1]>>


\* ------------------------------- reproduce() in pipeline mode, lines 62 to 76
subgraph(g, N) ==
    [nodes |-> N, edges |-> {e \in g.edges : e[1] \in N /\ e[2] \in N}]

\* networkx.weakly_connected_components: the stages joined to n by edges of
\* either direction
WeakComponent(g, n) ==
    {n} \cup Dependencies([nodes |-> g.nodes,
                           edges |-> g.edges \cup reverse(g).edges], n)

\* get_pipelines: one subgraph per weakly connected component
RECURSIVE PipelinesOf(_, _)
PipelinesOf(g, left) ==
    IF left = {} THEN <<>>
    ELSE LET c == WeakComponent(g, Min(left))
         IN <<subgraph(g, c)>> \o PipelinesOf(g, left \ c)

get_pipelines(g) == PipelinesOf(g, g.nodes)

\* get_pipeline: the pipeline that has the stage
get_pipeline(pipelines, stage) ==
    pipelines[CHOOSE k \in DOMAIN pipelines : stage \in pipelines[k].nodes]

\* variant: the stages nothing is drawn from (out_degree) are taken
RECURSIVE PipelineLeaves(_)
PipelineLeaves(used) ==
    IF used = <<>> THEN <<>>
    ELSE LET pline == Head(used)
             NoOut(stage) == out_edges(pline, stage) = {}
         IN SelectSeq(SortedSeq(pline.nodes), NoOut) \o PipelineLeaves(Tail(used))

\* lines 73 to 76: of each used pipeline, the stages with in_degree 0
RECURSIVE PipelineRoots(_)
PipelineRoots(used) ==
    IF used = <<>> THEN <<>>
    ELSE LET pline == Head(used)
             IsRoot(stage) == in_degree(pline, stage) = 0
         IN SelectSeq(SortedSeq(pline.nodes), IsRoot) \o PipelineRoots(Tail(used))

CollectPipelines ==
    /\ pc = "collect"
    /\ LET pipelines == get_pipelines(graph)
           used_pipelines ==
               IF targets.all_pipelines THEN pipelines
               ELSE [k \in DOMAIN targets.stages |->
                        get_pipeline(pipelines, targets.stages[k])]
       IN collected' = PipelineRoots(used_pipelines)
    /\ pc' = "pull"
    /\ UNCHANGED <<graph, frozen, targets, opts, active, stages, i, force,
                   result, calls, dumped, warnings, error>>

\* reproduce(pipeline=True) with at least one target, or
\* reproduce(all_pipelines=True), on runs where no stage fails
InitPipeline ==
    /\ graph \in NumberedGraphsOn(Stages)
    /\ frozen \in SUBSET Stages
    /\ targets \in
          {[all_pipelines |-> TRUE, stages |-> <<>>]} \cup
          {[all_pipelines |-> FALSE, stages |-> t] :
              t \in {s \in SeqsOver(Stages, MaxSeeds) : IsDistinct(s) /\ s # <<>>}}
    /\ collected = <<>>
    /\ opts \in {o \in Options :
                    ~o.force_downstream /\ ~o.dry /\ ~o.pull /\ ~o.force}
    /\ stages = <<>>
    /\ pc = "collect"
    /\ InitLocals

NextPipeline ==
    \/ CollectPipelines
    \/ PullSkipped
    \/ Derive
    \/ StageUnchanged
    \/ StageChanged
    \/ Return

SpecPipeline == InitPipeline /\ [][NextPipeline]_vars

\* the stages of the selected pipelines
SelectedStages ==
    IF targets.all_pipelines THEN graph.nodes
    ELSE UNION {WeakComponent(graph, t) : t \in Range(targets.stages)}

InvokedStages == {c.stage : c \in Range(calls)}

\* the seeds are the stages of the selected pipelines with no incoming edge
SeedsAreRoots ==
    pc # "collect" =>
        Range(collected) =
            {s \in SelectedStages : \A e \in graph.edges : e[2] # s}

\* C13 (as stated, read of the upstream closure the spec names): the seeds
\* are the roots of the selected pipelines, and a run in which no stage
\* fails invokes every stage of every selected pipeline.
C13_WholePipelines ==
    /\ SeedsAreRoots
    /\ (pc = "done" /\ ~opts.downstream /\ ~opts.single_item) =>
          SelectedStages \subseteq InvokedStages

\* C13 (amended): the seeds are the roots of the selected pipelines; with
\* downstream = false and single_item = false a run in which no stage fails
\* invokes exactly the stages of the selected pipelines that a root reaches
\* without leaving a frozen stage, which is every stage of the selected
\* pipelines when none of them that has a dependency is frozen.
C13_PipelinesUpToFrozen ==
    /\ SeedsAreRoots
    /\ (pc = "done" /\ ~opts.downstream /\ ~opts.single_item) =>
          /\ InvokedStages = UpstreamClosure(Pruned, Seeds)
          /\ (\A s \in frozen \cap SelectedStages : Successors(graph, s) = {})
                => InvokedStages = SelectedStages

\* C13 witness: of two pipelines the one of the target, which is not its
\* root, was reproduced whole
C13_Witness ==
    /\ pc = "done"
    /\ ~targets.all_pipelines
    /\ ~opts.downstream /\ ~opts.single_item
    /\ Len(targets.stages) = 1
    /\ targets.stages[1] \notin Range(collected)
    /\ InvokedStages = SelectedStages
    /\ SelectedStages # graph.nodes


\* ------------------------------------- the pipeline of the docstring, A to G
StageA == 1
StageB == 2
StageC == 3
StageD == 4
StageE == 5
StageF == 6
StageG == 7

DiamondNodes == {StageA, StageB, StageC, StageD, StageE, StageF, StageG}

\* lines 113 to 121: D is evaluated after B and C, and these after A; the
\* edge list A<-B, A<-C, B<-D, C<-D, D<-E, F<-G with x<-y read "y depends on x"
DiamondDocumented ==
    [nodes |-> DiamondNodes,
     edges |-> {<<StageB, StageA>>, <<StageC, StageA>>, <<StageD, StageB>>,
                <<StageD, StageC>>, <<StageE, StageD>>, <<StageG, StageF>>}]

\* the same edge list with x<-y read "x depends on y"
DiamondStated == reverse(DiamondDocumented)

\* _reproduce_stages entered with one of the two diamonds or any graph of
\* NumStages stages, any frozen set and any distinct seeds of the graph
InitDiamond ==
    /\ graph \in GraphsOn(Stages) \cup {DiamondDocumented, DiamondStated}
    /\ frozen \in SUBSET graph.nodes
    /\ collected \in {s \in SeqsOver(graph.nodes, MaxSeeds) : IsDistinct(s)}
    /\ opts \in {o \in Options :
                    ~o.force_downstream /\ ~o.dry /\ ~o.pull /\ ~o.force}
    /\ targets = NoTargets
    /\ stages = collected
    /\ pc = "plan"
    /\ InitLocals

SpecDiamond == InitDiamond /\ [][NextPlan]_vars

\* the two plans the scenario names, over the graph g with no frozen stage
DiamondPlans(g) ==
    (graph = g /\ frozen = {} /\ pc = "loop" /\ ~opts.single_item) =>
        /\ (~opts.downstream /\ Seeds = <<StageD>>) =>
              stages \in {<<StageA, StageB, StageC, StageD>>,
                          <<StageA, StageC, StageB, StageD>>}
        /\ (opts.downstream /\ Seeds = <<StageB>>) =>
              stages = <<StageB, StageD, StageE>>

\* C14 (as stated): in the diamond with x<-y read "x depends on y" the
\* upstream plan of D is [A, B, C, D] or [A, C, B, D] and the downstream
\* plan of B is [B, D, E].
C14_DiamondAsStated == DiamondPlans(DiamondStated)

\* C14 (amended): the same for the diamond with x<-y read "y depends on x",
\* the graph of the docstring.
C14_DiamondAsDocumented == DiamondPlans(DiamondDocumented)

\* C14 witness: the upstream plan of D in the documented diamond
C14_Witness ==
    /\ graph = DiamondDocumented /\ frozen = {}
    /\ pc = "loop"
    /\ ~opts.single_item /\ ~opts.downstream
    /\ Seeds = <<StageD>>
    /\ stages = <<StageA, StageB, StageC, StageD>>


\* C15: with downstream = false and single_item = false, the plan of a
\* single frozen seed is that seed alone; in the diamond as the spec reads
\* it (D depends on E) with D frozen, the pruned graph has lost the edge
\* D -> E and the upstream plan of D is [D].
C15_FrozenSeedAlone ==
    (pc = "loop" /\ ~opts.downstream /\ ~opts.single_item /\ Len(Seeds) = 1
        /\ Seeds[1] \in frozen) =>
        /\ stages = Seeds
        /\ (graph = DiamondStated /\ Seeds = <<StageD>> /\ frozen = {StageD}) =>
              /\ <<StageD, StageE>> \in graph.edges
              /\ <<StageD, StageE>> \notin active.edges
              /\ active.edges = graph.edges \ {<<StageD, StageE>>}

\* C15 witness: the diamond scenario, D frozen and seeded
C15_Witness ==
    /\ graph = DiamondStated
    /\ frozen = {StageD}
    /\ pc = "loop"
    /\ ~opts.downstream /\ ~opts.single_item
    /\ Seeds = <<StageD>>
    /\ stages = <<StageD>>


\* C16: the k-th invocation of a run is of the k-th stage of the plan and
\* gets as upstream the plan's first k-1 stages in plan order, whether they
\* changed or not; no stage is invoked before the one ahead of it returned.
C16_UpstreamIsPlanPrefix ==
    /\ Len(calls) <= Len(stages)
    /\ Len(calls) \in {i, i + 1}
    /\ \A k \in DOMAIN calls :
          /\ calls[k].stage = stages[k]
          /\ calls[k].upstream = Prefix(stages, k - 1)
          /\ \A j \in 1..(k - 1) : calls[j].ret # "raise"

\* C16 witness: the second stage is invoked after an unchanged first one
C16_Witness ==
    /\ Len(calls) = 2
    /\ calls[1].ret = "none"
    /\ calls[1].upstream = <<>>
    /\ calls[2].upstream = <<stages[1]>>
    /\ result = <<>>


\* the dumps of one stage, and the count of a stage in the result
DumpsOf(stage) == {k \in DOMAIN dumped : dumped[k].stage = stage}

ReportsOf(stage) == {k \in DOMAIN result : result[k] = stage}

\* what a changed stage leaves behind: one entry of the result, and one
\* dump with update_pipeline = False exactly when the run is not dry
ReportedAndPersisted(stage) ==
    /\ Cardinality(ReportsOf(stage)) = 1
    /\ Cardinality(DumpsOf(stage)) = (IF opts.dry THEN 0 ELSE 1)
    /\ \A k \in DumpsOf(stage) : dumped[k].update_pipeline = FALSE

ChangedBefore(k) == {j \in 1..(k - 1) : calls[j].ret = "stage"}

\* C18: the force value handed to the invocations of one run only ever goes
\* from false to true; it is the caller's value until a stage has reported a
\* change with force_downstream set, and true from the next invocation on.
C18_ForceMonotone ==
    /\ \A j, k \in DOMAIN calls : (j < k /\ calls[j].force) => calls[k].force
    /\ \A k \in DOMAIN calls :
          calls[k].force =
              (opts.force \/ (opts.force_downstream /\ ChangedBefore(k) # {}))
    /\ pc \in {"loop", "done", "failed"} =>
          force = (opts.force \/ (opts.force_downstream /\ result # <<>>))

\* C18 witness: caller's force is false, the first stage changed with
\* force_downstream set, and the second stage is invoked with force = true
C18_Witness ==
    /\ ~opts.force
    /\ opts.force_downstream
    /\ Len(calls) = 2
    /\ calls[1].ret = "stage"
    /\ ~calls[1].force
    /\ calls[2].force


\* the last invocation reported a change and its dump raised
DumpFailed ==
    /\ pc = "failed"
    /\ calls # <<>>
    /\ calls[Len(calls)].ret = "stage"

\* C20: when stage.dump raises for a changed stage of a non-dry run, the run
\* ends with a ReproductionError naming that stage, the stage is not in the
\* result and not persisted, force is what it was when the stage was
\* invoked, and nothing further is invoked.
C20_DumpFailureIsStageFailure ==
    DumpFailed =>
        LET last == calls[Len(calls)] IN
        /\ ~opts.dry
        /\ error = ReproductionError(last.stage)
        /\ last.stage = stages[Len(calls)]
        /\ last.stage \notin Range(result)
        /\ last.stage \notin DumpedStages
        /\ force = last.force
        /\ Len(calls) = i + 1
        /\ ~ENABLED Next

\* C20 witness: the dump of the first of two planned stages raises, with
\* force_downstream set and the caller's force false
C20_Witness ==
    /\ DumpFailed
    /\ Len(stages) = 2
    /\ Len(calls) = 1
    /\ opts.force_downstream
    /\ ~opts.force
    /\ ~force
    /\ result = <<>>


\* C19: in a downstream plan a frozen stage is there only as a seed, and the
\* plan holds exactly the seeds and the stages that reach a seed over edges
\* that leave no frozen stage: a frozen dependent of a seed, and what depends
\* on the seed only through frozen stages, is left out.
C19_FrozenCutsDownstream ==
    (Planned /\ opts.downstream /\ ~opts.single_item) =>
        /\ Range(stages) \cap frozen \subseteq Range(Seeds)
        /\ Range(stages) = DownstreamClosure(Pruned, Seeds)
        /\ \A e \in graph.edges :
              (e[2] \in Range(stages) /\ e[1] \notin Range(stages)) =>
                  e[1] \in frozen

\* C19 witness: frozen 2 depends on seed 1 and 3 depends on 2; only 1 is
\* planned
C19_Witness ==
    /\ Planned /\ opts.downstream /\ ~opts.single_item
    /\ Seeds = <<1>>
    /\ frozen = {2}
    /\ {<<2, 1>>, <<3, 2>>} \subseteq graph.edges
    /\ 3 \in DownstreamClosure(graph, Seeds)
    /\ stages = <<1>>

====
